---- MODULE Spec2Model ----
(***************************************************************************)
(* Roulette simulation (src/main.py): the wheel and its bins, the table    *)
(* with its betting limit, the Player strategy family (Martingale,         *)
(* PlayerCancellation), RouletteGame.cycle and the Simulator's             *)
(* session()/gather() loops.                                               *)
(*                                                                         *)
(* Python objects are modelled by one variable per attribute. `attrs` is   *)
(* the set of attribute names present on the player instance: reading an   *)
(* attribute that is not in it raises AttributeError. An exception that    *)
(* leaves a call is recorded in `error`.                                   *)
(***************************************************************************)
EXTENDS Integers, Sequences, FiniteSets, TLC

VARIABLES
    built, rngCalls,                       \* Wheel: outcomes added, draws made
    limit, bets,                           \* Table
    cls, attrs, stake, roundsToGo,         \* Player (shared fields)
    initialBet, nextBet, newBet, specificBet,
    lossCount, betMultiple,                \* Martingale
    sequence,                              \* PlayerCancellation
    initDuration, initStake, samples,      \* Simulator configuration
    stakeList, sessionStakes,              \* session() / gather() locals
    durations, maxima, iter,
    winning_bin,                           \* RouletteGame.cycle local
    settled,                               \* win/lose calls of the session, in order
    pc, error, call                        \* control position, last exception, last call

wheelVars  == <<built, rngCalls>>
tableVars  == <<limit, bets>>
playerVars == <<cls, attrs, stake, roundsToGo, initialBet, nextBet, newBet,
                specificBet, lossCount, betMultiple, sequence>>
simVars    == <<initDuration, initStake, samples, stakeList, sessionStakes,
                durations, maxima, iter>>
vars == <<wheelVars, tableVars, playerVars, simVars, winning_bin, settled,
          pc, error, call>>

-----------------------------------------------------------------------------
(* Bounds of the model *)

\* Simulator.samples ranges over 0..MaxSamples (the program sets 100).
MaxSamples == 4
\* Simulator.initDuration ranges over 1..MaxDuration (the program sets 250).
MaxDuration == 2
\* Table API runs hold at most MaxBets bets.
MaxBets == 3
\* Direct win/lose calls on a player: at most MaxCalls of them.
MaxCalls == 4

\* Table limits and starting stakes the model is run with.
Limits == {5, 10, 30}
Stakes == {5, 10, 20, 1000}
\* Bins wheel.next() returns in the model, out of 0..37: the two green bins
\* ("0" and "00"), and a red and a black number of the low and of the high half.
Draws == {0, 1, 2, 19, 20, 37}
\* Amounts of the bets handed to Table.placeBet directly.
BetAmounts == {5, 10, 20}

-----------------------------------------------------------------------------
(* Outcome, Bet *)

Outcome(name, odds) == [name |-> name, odds |-> odds]

OutcomeWinAmount(outcome, amount) == outcome.odds * amount

Bet(amount, outcome) == [amount |-> amount, outcome |-> outcome]

\* Bet.winAmount without the returned stake
BetWinAmount_profitOnly(bet) == OutcomeWinAmount(bet.outcome, bet.amount)
BetWinAmount(bet) == bet.amount + OutcomeWinAmount(bet.outcome, bet.amount)

BetLoseAmount(bet) == bet.amount

\* value held by a variable whose attribute does not exist yet
NoOutcome == Outcome("", 0)
NoBet == Bet(0, NoOutcome)

-----------------------------------------------------------------------------
(* BinBuilder: the list of (bin number, Outcome) pairs, in the order built *)

Digits == <<"0", "1", "2", "3", "4", "5", "6", "7", "8", "9">>

RECURSIVE str(_)
str(n) == IF n < 10 THEN Digits[n + 1]
          ELSE str(n \div 10) \o Digits[(n % 10) + 1]

RECURSIVE Flatten(_)
Flatten(ss) == IF ss = <<>> THEN <<>> ELSE Head(ss) \o Flatten(Tail(ss))

\* range(a, b, step) as a sequence
RECURSIVE range(_, _, _)
range(a, b, step) == IF a >= b THEN <<>> ELSE <<a>> \o range(a + step, b, step)

straightBets ==
    [i \in 1..37 |-> <<i - 1, Outcome(str(i - 1), 35)>>]
        \o << <<37, Outcome("00", 35)>> >>

splitBets ==
    LET plusone   == range(1, 35, 3) \o range(2, 36, 3)
        plusthree == range(1, 34, 1)
        pair(i, d) == LET string == "Split " \o str(i) \o "-" \o str(i + d)
                      IN  << <<i, Outcome(string, 17)>>,
                             <<i + d, Outcome(string, 17)>> >>
    IN  Flatten([k \in 1..Len(plusone) |-> pair(plusone[k], 1)])
            \o Flatten([k \in 1..Len(plusthree) |-> pair(plusthree[k], 3)])

streetBets ==
    LET rows == range(1, 35, 3)
        street(i) ==
            LET string == "Street " \o str(i) \o "-" \o str(i + 1) \o "-" \o str(i + 2)
            IN  [j \in 1..3 |-> <<i + j - 1, Outcome(string, 11)>>]
    IN  Flatten([k \in 1..Len(rows) |-> street(rows[k])])

lineBets ==
    LET rows == range(1, 33, 3)
        line(i) ==
            LET string == "Line " \o str(i) \o "-" \o str(i + 1) \o "-" \o str(i + 2)
                            \o "-" \o str(i + 3) \o "-" \o str(i + 4) \o "-" \o str(i + 5)
            IN  [j \in 1..6 |-> <<i + j - 1, Outcome(string, 5)>>]
    IN  Flatten([k \in 1..Len(rows) |-> line(rows[k])])

dozenBets ==
    LET starts == <<1, 13, 25>>
        dozen(i) ==
            LET string == "Dozen " \o str(i) \o "-" \o str(i + 11)
            IN  [j \in 1..12 |-> <<i + j - 1, Outcome(string, 2)>>]
    IN  Flatten([k \in 1..Len(starts) |-> dozen(starts[k])])

cornerBets == <<>>

reds == {1, 3, 5, 7, 9, 12, 14, 16, 18, 19, 21, 23, 25, 27, 30, 32, 34, 36}

\* outsideBets with the Low/High boundary one number too high
outsideBets_lowUpTo19 ==
    LET number(i) ==
            << <<i, Outcome(IF i < 20 THEN "Low" ELSE "High", 1)>>,
               <<i, Outcome(IF i % 2 = 0 THEN "Even" ELSE "Odd", 1)>>,
               <<i, Outcome(IF i \in reds THEN "Red" ELSE "Black", 1)>> >>
    IN  Flatten([i \in 1..36 |-> number(i)])

outsideBets ==
    LET number(i) ==
            << <<i, Outcome(IF i < 19 THEN "Low" ELSE "High", 1)>>,
               <<i, Outcome(IF i % 2 = 0 THEN "Even" ELSE "Odd", 1)>>,
               <<i, Outcome(IF i \in reds THEN "Red" ELSE "Black", 1)>> >>
    IN  Flatten([i \in 1..36 |-> number(i)])

\* BinBuilder.buildBins: the outcomes it hands to wheel.addOutcome, in order
buildOutcomes ==
    straightBets \o splitBets \o streetBets \o cornerBets
        \o lineBets \o dozenBets \o outsideBets

-----------------------------------------------------------------------------
(* Wheel *)

\* s | {outcome} for sets whose members are equal iff their names are equal
\* (Outcome.__eq__ and __hash__ look at the name only)
SetAdd(s, outcome) ==
    IF \E o \in s : o.name = outcome.name THEN s ELSE s \cup {outcome}

EmptyWheel == [bins |-> [n \in 0..37 |-> {}], all_outcomes |-> {}]

\* Wheel.addOutcome(number, outcome)
addOutcome(wheel, number, outcome) ==
    [bins         |-> [wheel.bins EXCEPT ![number] = SetAdd(@, outcome)],
     all_outcomes |-> SetAdd(wheel.all_outcomes, outcome)]

\* SetAdd of each outcome of a sequence, in order
RECURSIVE addAll(_, _)
addAll(s, os) == IF os = <<>> THEN s ELSE addAll(SetAdd(s, Head(os)), Tail(os))

\* bin `number` after buildBins has added the first k outcomes of its list:
\* addOutcome changes no bin but the one it is given, so the bin is the
\* outcomes listed for that number, added in the order of the list
binAfter(k, number) ==
    LET mine(pair) == pair[1] = number
        listed == SelectSeq(SubSeq(buildOutcomes, 1, k), mine)
    IN  addAll({}, [i \in 1..Len(listed) |-> listed[i][2]])

\* wheel.all_outcomes after the first k outcomes: of the outcomes with one
\* name the set keeps the first that was added
allOutcomesAfter(k) ==
    {buildOutcomes[i][2] : i \in
        {i \in 1..k : \A j \in 1..(i - 1) :
            buildOutcomes[j][2].name # buildOutcomes[i][2].name}}

\* the wheel after the first k outcomes of buildBins have been added
buildBins(k) ==
    [bins |-> [n \in 0..37 |-> binAfter(k, n)], all_outcomes |-> allOutcomesAfter(k)]

\* Wheel.__init__: the wheel as constructed. Nothing changes it afterwards:
\* bins and all_outcomes are those of the constructed wheel
BuiltWheel == buildBins(Len(buildOutcomes))
bins == BuiltWheel.bins
all_outcomes == BuiltWheel.all_outcomes

\* Wheel.getOutcome(outcomeName); the result is None when no outcome has the name
HasOutcome(outcomeName) == \E o \in all_outcomes : o.name = outcomeName
getOutcome(outcomeName) == CHOOSE o \in all_outcomes : o.name = outcomeName

-----------------------------------------------------------------------------
(* Table *)

RECURSIVE SumAmounts(_)
SumAmounts(bs) == IF bs = <<>> THEN 0 ELSE Head(bs).amount + SumAmounts(Tail(bs))

\* a Table.isValid that also refuses a total equal to the limit
isValid_belowLimit(bs) == SumAmounts(bs) < limit

\* Table.isValid, evaluated on a bet list
isValid(bs) == ~(SumAmounts(bs) > limit)

\* Table.placeBet: the bet list after the call (the bet is appended first)
placeBetList(bs, bet) == Append(bs, bet)

\* a Table.placeBet that never raises
placeBetRaises_never(bs, bet) == FALSE

\* Table.placeBet: whether the call raises InvalidBet
placeBetRaises(bs, bet) == ~isValid(placeBetList(bs, bet))

-----------------------------------------------------------------------------
(* Player, Martingale, PlayerCancellation *)

\* Player.__init__
PlayerStake == 200
PlayerRounds == 30
PlayerBet == 10
PlayerAttrs == {"stake", "roundsToGo", "table", "initialBet", "nextBet"}

\* Martingale.__init__ adds lossCount, betMultiple and specificBet
MartingaleAttrs == PlayerAttrs \cup {"lossCount", "betMultiple", "specificBet"}

\* PlayerCancellation defines _init_, which construction never calls:
\* the instance holds what Player.__init__ sets and nothing else
CancellationAttrs == PlayerAttrs

\* a Player.isPlaying that does not look at the stake
isPlaying_anyStake(stk, nb, rtg) == rtg # 0

\* Player.isPlaying
isPlaying(stk, nb, rtg) == (stk >= nb) /\ rtg # 0

\* The part of the player that win and lose change, as a record
PlayerState ==
    [stake |-> stake, lossCount |-> lossCount, betMultiple |-> betMultiple,
     sequence |-> sequence, settled |-> settled, error |-> "none"]

\* Player.win, Player.lose
PlayerWin(p, bet) == [p EXCEPT !.stake = @ + BetWinAmount(bet)]
PlayerLose(p, bet) == [p EXCEPT !.stake = @ - BetLoseAmount(bet)]

\* Martingale.win without the reset of betMultiple
MartingaleWin_keepsMultiple(p, bet) == [PlayerWin(p, bet) EXCEPT !.lossCount = 0]

\* Martingale.win, Martingale.lose
MartingaleWin(p, bet) ==
    [PlayerWin(p, bet) EXCEPT !.lossCount = 0, !.betMultiple = 1]
\* a Martingale.lose that doubles betMultiple without counting the loss
MartingaleLose_keepsCount(p, bet) ==
    [PlayerLose(p, bet) EXCEPT !.betMultiple = @ * 2]
MartingaleLose(p, bet) ==
    [PlayerLose(p, bet) EXCEPT !.lossCount = @ + 1, !.betMultiple = @ * 2]

\* PlayerCancellation.win, PlayerCancellation.lose
CancellationWin(p, bet) ==
    LET q == PlayerWin(p, bet)
    IN  IF "sequence" \notin attrs THEN [q EXCEPT !.error = "AttributeError"]
        ELSE IF Len(q.sequence) > 1
             THEN [q EXCEPT !.sequence = SubSeq(@, 2, Len(@) - 1)]
             ELSE q
CancellationLose(p, bet) ==
    LET q == PlayerLose(p, bet)
    IN  IF "sequence" \notin attrs THEN [q EXCEPT !.error = "AttributeError"]
        ELSE IF Len(q.sequence) = 0 THEN [q EXCEPT !.error = "IndexError"]
        ELSE [q EXCEPT !.sequence = Append(@, @[1] + @[Len(@)])]

\* player.win(bet), player.lose(bet): the method of the player's class
win(p, bet) ==
    LET q == [p EXCEPT !.settled = Append(@, "win")]
    IN  IF cls = "Martingale" THEN MartingaleWin(q, bet) ELSE CancellationWin(q, bet)
lose(p, bet) ==
    LET q == [p EXCEPT !.settled = Append(@, "lose")]
    IN  IF cls = "Martingale" THEN MartingaleLose(q, bet) ELSE CancellationLose(q, bet)

\* Player.placeBets with self.nextBet = nb, on a table holding bs
PlayerPlaceBets(nb, bs) ==
    IF ~isPlaying(stake, nb, roundsToGo)
    THEN [nextBet |-> nb, newBet |-> newBet, attrs |-> attrs, bets |-> bs,
          error |-> "none"]
    ELSE IF "specificBet" \notin attrs
    THEN [nextBet |-> nb, newBet |-> newBet, attrs |-> attrs, bets |-> bs,
          error |-> "AttributeError"]
    ELSE LET b == Bet(nb, specificBet)
         IN  [nextBet |-> nb, newBet |-> b, attrs |-> attrs \cup {"newBet"},
              bets |-> placeBetList(bs, b),
              error |-> IF placeBetRaises(bs, b) THEN "InvalidBet" ELSE "none"]

\* Martingale.placeBets
MartingalePlaceBets(bs) == PlayerPlaceBets(initialBet * betMultiple, bs)

\* PlayerCancellation.placeBets
CancellationPlaceBets(bs) ==
    IF "sequence" \notin attrs
    THEN [nextBet |-> nextBet, newBet |-> newBet, attrs |-> attrs, bets |-> bs,
          error |-> "AttributeError"]
    ELSE IF Len(sequence) > 0
    THEN PlayerPlaceBets(sequence[1] + sequence[Len(sequence)], bs)
    ELSE [nextBet |-> nextBet, newBet |-> newBet, attrs |-> attrs, bets |-> bs,
          error |-> "none"]

\* player.placeBets() on a table holding bs
placeBets(bs) ==
    IF cls = "Martingale" THEN MartingalePlaceBets(bs) ELSE CancellationPlaceBets(bs)

-----------------------------------------------------------------------------
(* RouletteGame.cycle: the settlement loop over the table's bets *)

RECURSIVE settle(_, _, _)
settle(bs, bin, p) ==
    IF bs = <<>> \/ p.error # "none" THEN p
    ELSE LET betmade == Head(bs)
             winner  == \E winning_outcome \in bin :
                            betmade.outcome.name = winning_outcome.name
         IN  settle(Tail(bs), bin,
                    IF winner THEN win(p, betmade) ELSE lose(p, betmade))

-----------------------------------------------------------------------------
(* Simulator *)

\* Simulator.__init__
SimInitDuration == 250
SimInitStake == 1000
SimSamples == 100
\* Simulator.session: the bet size it resets the player to
SessionBet == 10

RECURSIVE Max(_)
Max(s) == IF Len(s) = 1 THEN s[1]
          ELSE LET m == Max(Tail(s)) IN IF Head(s) >= m THEN Head(s) ELSE m

-----------------------------------------------------------------------------
(* Construction *)

\* Wheel(), Table(limit, wheel), RouletteGame(wheel, table)
InitGame ==
    /\ built = Len(buildOutcomes)
    /\ rngCalls = 0
    /\ bets = <<>>
    /\ winning_bin = {}

\* Martingale(table)
InitMartingale ==
    /\ cls = "Martingale"
    /\ attrs = MartingaleAttrs
    /\ stake = PlayerStake
    /\ roundsToGo = PlayerRounds
    /\ initialBet = PlayerBet
    /\ nextBet = PlayerBet
    /\ newBet = NoBet
    /\ lossCount = 0
    /\ betMultiple = 1
    /\ specificBet = getOutcome("Black")
    /\ sequence = <<>>

\* Simulator(player, game), before gather() is called
InitSimulatorLocals ==
    /\ stakeList = <<>>
    /\ sessionStakes = <<>>
    /\ durations = <<>>
    /\ maxima = <<>>
    /\ iter = 0
    /\ settled = <<>>
    /\ error = "none"
    /\ call = "none"

\* The program's objects as constructed, the simulator about to gather().
\* The table limit and the simulator's three settings range over small values.
Init ==
    /\ InitGame
    /\ InitMartingale
    /\ InitSimulatorLocals
    /\ limit \in Limits
    /\ initDuration \in 1..MaxDuration
    /\ initStake \in Stakes
    /\ samples \in 0..MaxSamples
    /\ pc = "gather"

-----------------------------------------------------------------------------
(* Simulator.gather and Simulator.session, with a Martingale player *)

\* a Martingale.reset that forgets to reset betMultiple
MartingaleReset_keepsMultiple == [lossCount |-> 0, betMultiple |-> betMultiple]

\* Martingale.reset (Player.reset does nothing)
MartingaleReset == [lossCount |-> 0, betMultiple |-> 1]

\* Simulator.session: the round budget it gives the player
sessionRounds == samples

\* Simulator.gather: the number of sessions it runs
gatherSessions == initDuration

\* player.reset(), by the player's class: PlayerCancellation.reset only calls
\* Player.reset, which does nothing
reset ==
    IF cls = "Martingale" THEN MartingaleReset
    ELSE [lossCount |-> lossCount, betMultiple |-> betMultiple]

\* gather: the next iteration of its loop begins with player.reset()
GatherReset ==
    /\ pc = "gather"
    /\ iter < gatherSessions
    /\ iter' = iter + 1
    /\ lossCount' = reset.lossCount
    /\ betMultiple' = reset.betMultiple
    /\ pc' = "reset"
    /\ error' = "none"
    /\ call' = "reset"
    /\ UNCHANGED <<wheelVars, tableVars, cls, attrs, stake, roundsToGo, initialBet,
                   nextBet, newBet, specificBet, sequence, initDuration,
                   initStake, samples, stakeList, sessionStakes, durations,
                   maxima, winning_bin, settled>>

\* gather then calls session(), which sets the player's session fields and
\* starts an empty stakeList
StartSession ==
    /\ pc = "reset"
    /\ stake' = initStake
    /\ roundsToGo' = sessionRounds
    /\ initialBet' = SessionBet
    /\ nextBet' = SessionBet
    /\ stakeList' = <<>>
    /\ settled' = <<>>
    /\ pc' = "session"
    /\ error' = "none"
    /\ call' = "session"
    /\ UNCHANGED <<wheelVars, tableVars, cls, attrs, newBet, specificBet, lossCount,
                   betMultiple, sequence, initDuration, initStake, samples,
                   sessionStakes, durations, maxima, iter, winning_bin>>

\* session: the loop condition
sessionContinues == isPlaying(stake, nextBet, roundsToGo)

\* session: one pass of the loop in which game.cycle(player) completes:
\* clearBets, placeBets, wheel.next(), settlement, roundsToGo -= 1, then
\* stakeList.append(stake)
Cycle ==
    /\ pc = "session"
    /\ sessionContinues
    /\ LET placed == placeBets(<<>>)
       IN  /\ placed.error = "none"
           /\ \E n \in Draws :
                LET p == settle(placed.bets, bins[n], PlayerState)
                IN  /\ p.error = "none"
                    /\ winning_bin' = bins[n]
                    /\ rngCalls' = rngCalls + 1
                    /\ stake' = p.stake
                    /\ lossCount' = p.lossCount
                    /\ betMultiple' = p.betMultiple
                    /\ sequence' = p.sequence
                    /\ settled' = p.settled
                    /\ stakeList' = Append(stakeList, p.stake)
           /\ bets' = placed.bets
           /\ nextBet' = placed.nextBet
           /\ newBet' = placed.newBet
           /\ attrs' = placed.attrs
    /\ roundsToGo' = roundsToGo - 1
    /\ error' = "none"
    /\ call' = "cycle"
    /\ UNCHANGED <<built, limit, cls, initialBet, specificBet, initDuration,
                   initStake, samples, sessionStakes, durations, maxima, iter, pc>>

\* session: game.cycle(player) raises InvalidBet out of placeBets; session
\* catches it and returns stakeList
CycleRejected ==
    /\ pc = "session"
    /\ sessionContinues
    /\ LET placed == placeBets(<<>>)
       IN  /\ placed.error = "InvalidBet"
           /\ bets' = placed.bets
           /\ nextBet' = placed.nextBet
           /\ newBet' = placed.newBet
           /\ attrs' = placed.attrs
    /\ sessionStakes' = stakeList
    /\ error' = "InvalidBet"
    /\ call' = "cycle"
    /\ pc' = "returned"
    /\ UNCHANGED <<wheelVars, limit, cls, stake, roundsToGo, initialBet, specificBet,
                   lossCount, betMultiple, sequence, initDuration, initStake,
                   samples, stakeList, durations, maxima, iter, winning_bin,
                   settled>>

\* session: the loop condition is false; session returns stakeList
SessionReturn ==
    /\ pc = "session"
    /\ ~sessionContinues
    /\ sessionStakes' = stakeList
    /\ error' = "none"
    /\ call' = "return"
    /\ pc' = "returned"
    /\ UNCHANGED <<wheelVars, tableVars, playerVars, initDuration, initStake,
                   samples, stakeList, durations, maxima, iter, winning_bin,
                   settled>>

\* gather: durations.append(len(sessionStakes)); maxima.append(max(sessionStakes)).
\* max of an empty list raises ValueError, which leaves gather
Record ==
    /\ pc = "returned"
    /\ IF sessionStakes = <<>>
       THEN /\ durations' = Append(durations, Len(sessionStakes))
            /\ error' = "ValueError"
            /\ pc' = "raised"
            /\ UNCHANGED maxima
       ELSE /\ durations' = Append(durations, Len(sessionStakes))
            /\ maxima' = Append(maxima, Max(sessionStakes))
            /\ error' = "none"
            /\ pc' = "gather"
    /\ call' = "record"
    /\ UNCHANGED <<wheelVars, tableVars, playerVars, initDuration, initStake,
                   samples, stakeList, sessionStakes, iter, winning_bin, settled>>

\* gather: the loop is over; it returns (maxima, durations)
GatherReturn ==
    /\ pc = "gather"
    /\ iter >= gatherSessions
    /\ pc' = "done"
    /\ call' = "return"
    /\ UNCHANGED <<wheelVars, tableVars, playerVars, simVars, winning_bin, settled,
                   error>>

Next ==
    \/ GatherReset
    \/ StartSession
    \/ Cycle
    \/ CycleRejected
    \/ SessionReturn
    \/ Record
    \/ GatherReturn

Spec == Init /\ [][Next]_vars

-----------------------------------------------------------------------------
(* Wheel.__init__: buildBins adds its outcomes to the wheel one by one *)

\* Simulator(player, game) as the program constructs it
InitSimulator ==
    /\ initDuration = SimInitDuration
    /\ initStake = SimInitStake
    /\ samples = SimSamples

\* the wheel under construction: no outcome added yet. The objects made after
\* the wheel hold the values they will be constructed with.
InitWheel ==
    /\ built = 0
    /\ rngCalls = 0
    /\ bets = <<>>
    /\ winning_bin = {}
    /\ InitMartingale
    /\ InitSimulatorLocals
    /\ InitSimulator
    /\ limit \in Limits
    /\ pc = "build"

\* buildBins: wheel.addOutcome(outcome[0], outcome[1]) for the next outcome of
\* the list; the wheel is then buildBins(built')
WheelAddOutcome ==
    /\ pc = "build"
    /\ built < Len(buildOutcomes)
    /\ built' = built + 1
    /\ call' = "addOutcome"
    /\ UNCHANGED <<rngCalls, tableVars, playerVars, simVars, winning_bin, settled,
                   pc, error>>

NextWheel == WheelAddOutcome

SpecWheel == InitWheel /\ [][NextWheel]_vars

-----------------------------------------------------------------------------
(* Table API: placeBet and clearBets called directly *)

InitTable ==
    /\ InitGame
    /\ InitMartingale
    /\ InitSimulatorLocals
    /\ InitSimulator
    /\ limit \in Limits
    /\ pc = "api"

\* table.placeBet(Bet(amount, Black))
TablePlaceBet ==
    /\ Len(bets) < MaxBets
    /\ \E amount \in BetAmounts :
        LET bet == Bet(amount, getOutcome("Black"))
        IN  /\ bets' = placeBetList(bets, bet)
            /\ error' = IF placeBetRaises(bets, bet) THEN "InvalidBet" ELSE "none"
    /\ call' = "placeBet"
    /\ UNCHANGED <<wheelVars, limit, playerVars, simVars, winning_bin, settled, pc>>

\* table.clearBets()
TableClearBets ==
    /\ bets' = <<>>
    /\ error' = "none"
    /\ call' = "clearBets"
    /\ UNCHANGED <<wheelVars, limit, playerVars, simVars, winning_bin, settled, pc>>

NextTable == TablePlaceBet \/ TableClearBets

SpecTable == InitTable /\ [][NextTable]_vars

-----------------------------------------------------------------------------
(* PlayerCancellation API: the methods called directly on a new instance *)

\* PlayerCancellation(table): Player.__init__ runs, _init_ does not
InitCancellation ==
    /\ cls = "PlayerCancellation"
    /\ attrs = CancellationAttrs
    /\ stake = PlayerStake
    /\ roundsToGo = PlayerRounds
    /\ initialBet = PlayerBet
    /\ nextBet = PlayerBet
    /\ newBet = NoBet
    /\ lossCount = 0
    /\ betMultiple = 1
    /\ specificBet = NoOutcome
    /\ sequence = <<>>

InitCancel ==
    /\ InitGame
    /\ InitCancellation
    /\ InitSimulatorLocals
    /\ InitSimulator
    /\ limit \in Limits
    /\ pc = "api"

\* player._init_(table): its first statement, super()._init_(table), raises
\* AttributeError, as no class above PlayerCancellation defines _init_
Canc_init_ ==
    /\ error' = "AttributeError"
    /\ call' = "_init_"
    /\ UNCHANGED <<wheelVars, tableVars, playerVars, simVars, winning_bin, settled, pc>>

\* player.resetSequence()
CancResetSequence ==
    /\ sequence' = <<1, 2, 3, 4, 5, 6>>
    /\ attrs' = attrs \cup {"sequence"}
    /\ error' = "none"
    /\ call' = "resetSequence"
    /\ UNCHANGED <<wheelVars, tableVars, cls, stake, roundsToGo, initialBet, nextBet,
                   newBet, specificBet, lossCount, betMultiple, simVars,
                   winning_bin, settled, pc>>

\* player.reset(): Player.reset, which does nothing
CancReset ==
    /\ error' = "none"
    /\ call' = "reset"
    /\ UNCHANGED <<wheelVars, tableVars, playerVars, simVars, winning_bin, settled, pc>>

\* player.placeBets()
CancPlaceBets ==
    /\ LET placed == placeBets(bets)
       IN  /\ bets' = placed.bets
           /\ nextBet' = placed.nextBet
           /\ newBet' = placed.newBet
           /\ attrs' = placed.attrs
           /\ error' = placed.error
    /\ call' = "placeBets"
    /\ UNCHANGED <<wheelVars, limit, cls, stake, roundsToGo, initialBet, specificBet,
                   lossCount, betMultiple, sequence, simVars, winning_bin,
                   settled, pc>>

\* the bet a caller hands to win and lose: the player's next bet, on Black
CallerBet == Bet(nextBet, getOutcome("Black"))

\* player.win(bet)
CancWin ==
    /\ Len(settled) < MaxCalls
    /\ LET p == win(PlayerState, CallerBet)
       IN  /\ stake' = p.stake
           /\ sequence' = p.sequence
           /\ settled' = p.settled
           /\ error' = p.error
    /\ call' = "win"
    /\ UNCHANGED <<wheelVars, tableVars, cls, attrs, roundsToGo, initialBet, nextBet,
                   newBet, specificBet, lossCount, betMultiple, simVars,
                   winning_bin, pc>>

\* player.lose(bet)
CancLose ==
    /\ Len(settled) < MaxCalls
    /\ LET p == lose(PlayerState, CallerBet)
       IN  /\ stake' = p.stake
           /\ sequence' = p.sequence
           /\ settled' = p.settled
           /\ error' = p.error
    /\ call' = "lose"
    /\ UNCHANGED <<wheelVars, tableVars, cls, attrs, roundsToGo, initialBet, nextBet,
                   newBet, specificBet, lossCount, betMultiple, simVars,
                   winning_bin, pc>>

NextCancel ==
    \/ Canc_init_
    \/ CancResetSequence
    \/ CancReset
    \/ CancPlaceBets
    \/ CancWin
    \/ CancLose

SpecCancel == InitCancel /\ [][NextCancel]_vars

-----------------------------------------------------------------------------
(* Simulator.gather with a PlayerCancellation: the caller may first call
   resetSequence, win and lose on the player, then calls gather() *)

InitCancelGather ==
    /\ InitGame
    /\ InitCancellation
    /\ InitSimulatorLocals
    /\ limit \in Limits
    /\ initDuration \in 1..MaxDuration
    /\ initStake \in Stakes
    /\ samples \in 0..MaxSamples
    /\ pc = "api"

\* simulator.gather() is called: durations = [], maxima = []
CallGather ==
    /\ pc = "api"
    /\ durations' = <<>>
    /\ maxima' = <<>>
    /\ pc' = "gather"
    /\ error' = "none"
    /\ call' = "gather"
    /\ UNCHANGED <<wheelVars, tableVars, playerVars, initDuration, initStake,
                   samples, stakeList, sessionStakes, iter, winning_bin, settled>>

\* session: game.cycle(player) raises AttributeError out of placeBets (after
\* clearBets); neither session nor gather catches it
CycleRaises ==
    /\ pc = "session"
    /\ sessionContinues
    /\ LET placed == placeBets(<<>>)
       IN  /\ placed.error = "AttributeError"
           /\ bets' = placed.bets
           /\ nextBet' = placed.nextBet
           /\ newBet' = placed.newBet
           /\ attrs' = placed.attrs
    /\ error' = "AttributeError"
    /\ call' = "cycle"
    /\ pc' = "raised"
    /\ UNCHANGED <<wheelVars, limit, cls, stake, roundsToGo, initialBet, specificBet,
                   lossCount, betMultiple, sequence, simVars, winning_bin,
                   settled>>

NextCancelGather ==
    \/ (pc = "api" /\ CancResetSequence)
    \/ (pc = "api" /\ CancWin)
    \/ (pc = "api" /\ CancLose)
    \/ CallGather
    \/ GatherReset
    \/ StartSession
    \/ Cycle
    \/ CycleRaises
    \/ SessionReturn
    \/ Record
    \/ GatherReturn

SpecCancelGather == InitCancelGather /\ [][NextCancelGather]_vars

-----------------------------------------------------------------------------
(* Martingale API: win, lose and reset called directly on a new instance *)

InitMartingaleApi ==
    /\ InitGame
    /\ InitMartingale
    /\ InitSimulatorLocals
    /\ InitSimulator
    /\ limit \in Limits
    /\ pc = "api"

\* player.win(bet)
MartWin ==
    /\ Len(settled) < MaxCalls
    /\ LET p == win(PlayerState, CallerBet)
       IN  /\ stake' = p.stake
           /\ lossCount' = p.lossCount
           /\ betMultiple' = p.betMultiple
           /\ settled' = p.settled
           /\ error' = p.error
    /\ call' = "win"
    /\ UNCHANGED <<wheelVars, tableVars, cls, attrs, roundsToGo, initialBet, nextBet,
                   newBet, specificBet, sequence, simVars, winning_bin, pc>>

\* player.lose(bet)
MartLose ==
    /\ Len(settled) < MaxCalls
    /\ LET p == lose(PlayerState, CallerBet)
       IN  /\ stake' = p.stake
           /\ lossCount' = p.lossCount
           /\ betMultiple' = p.betMultiple
           /\ settled' = p.settled
           /\ error' = p.error
    /\ call' = "lose"
    /\ UNCHANGED <<wheelVars, tableVars, cls, attrs, roundsToGo, initialBet, nextBet,
                   newBet, specificBet, sequence, simVars, winning_bin, pc>>

\* player.reset()
MartReset ==
    /\ lossCount' = reset.lossCount
    /\ betMultiple' = reset.betMultiple
    /\ error' = "none"
    /\ call' = "reset"
    /\ UNCHANGED <<wheelVars, tableVars, cls, attrs, stake, roundsToGo, initialBet,
                   nextBet, newBet, specificBet, sequence, simVars, winning_bin,
                   settled, pc>>

NextMartingale == MartWin \/ MartLose \/ MartReset

SpecMartingale == InitMartingaleApi /\ [][NextMartingale]_vars

-----------------------------------------------------------------------------
(* Properties *)

Last(s) == s[Len(s)]
Front(s) == SubSeq(s, 1, Len(s) - 1)

RECURSIVE Pow2(_)
Pow2(k) == IF k = 0 THEN 1 ELSE 2 * Pow2(k - 1)

\* the number of "lose" entries at the end of a settlement log
RECURSIVE TrailingLosses(_)
TrailingLosses(log) ==
    IF log = <<>> \/ Last(log) # "lose" THEN 0 ELSE 1 + TrailingLosses(Front(log))

\* whether a bet wins against a bin, and what settling it adds to the stake
Matches(bet, bin) == \E o \in bin : o.name = bet.outcome.name
Payout(bet, bin) ==
    IF Matches(bet, bin) THEN bet.amount + bet.outcome.odds * bet.amount
    ELSE 0 - bet.amount

RECURSIVE TotalPayout(_, _)
TotalPayout(bs, bin) ==
    IF bs = <<>> THEN 0 ELSE Payout(Head(bs), bin) + TotalPayout(Tail(bs), bin)

\* C1: a placeBet call that raises InvalidBet leaves the table's bet list as it
\* was before the call.
C1_RejectedBetLeavesTable ==
    [][(call' = "placeBet" /\ error' = "InvalidBet") => bets' = bets]_vars

\* C2: in every reachable state of a simulated session the amounts of the bets
\* held by the table sum to at most the table limit.
C2_TableWithinLimit == SumAmounts(bets) <= limit

\* C3: the bet a Martingale player places in a round is initialBet * 2^k, k
\* being the number of consecutive losses settled just before that round (the
\* round's own settlement, when the round completed, is the last log entry).
C3_MartingaleBetSize ==
    (call = "cycle" /\ bets # <<>>) =>
        LET before == IF error = "InvalidBet" THEN settled ELSE Front(settled)
        IN  /\ Len(bets) = 1
            /\ bets[1].amount = initialBet * Pow2(TrailingLosses(before))
            /\ bets[1].outcome.name = "Black"

\* C3 witness: loss, win, loss, loss: the fourth bet is 2 * initialBet again
\* (the stakes recorded show the bets 10, 20, 10, 20).
C3_Witness ==
    /\ settled = <<"lose", "win", "lose", "lose">>
    /\ bets = <<Bet(20, getOutcome("Black"))>>
    /\ stakeList = <<990, 1030, 1020, 1000>>

\* C4: in a cycle that draws a bin, every bet on the table is settled once: the
\* stake grows by amount + odds * amount for a bet whose outcome name is in the
\* drawn bin and shrinks by amount otherwise, and roundsToGo drops by one.
C4_CycleSettlesEachBet ==
    [][rngCalls' = rngCalls + 1 =>
        /\ stake' = stake + TotalPayout(bets', winning_bin')
        /\ settled' = settled \o
              [i \in 1..Len(bets') |->
                  IF Matches(bets'[i], winning_bin') THEN "win" ELSE "lose"]
        /\ roundsToGo' = roundsToGo - 1]_vars

\* C4 witness: a first round whose bet of 10 on Black won against a black bin.
C4_Witness ==
    /\ call = "cycle"
    /\ settled = <<"win">>
    /\ bets = <<Bet(10, getOutcome("Black"))>>
    /\ winning_bin = bins[20]
    /\ stake = initStake + 20
    /\ roundsToGo = samples - 1

\* C5: session runs no round (bin drawn, roundsToGo decremented, stake recorded)
\* in which the player placed no bet because its stake was below the next bet
\* computed for that round.
C5_NoRoundWithoutAffordableBet ==
    [][(rngCalls' = rngCalls + 1 /\ Len(stakeList') = Len(stakeList) + 1) =>
        ~(bets' = <<>> /\ stake < nextBet')]_vars

\* C6: when the table rejects the bet, session returns exactly the stakes
\* recorded so far, and gather goes on (to the next session or to its return)
\* instead of failing.
C6_RejectionEndsSessionOnly ==
    [][/\ (pc = "session" /\ error' = "InvalidBet") =>
            (pc' = "returned" /\ sessionStakes' = stakeList)
       /\ (pc = "returned" /\ error = "InvalidBet") => pc' = "gather"]_vars

\* C7: gather runs exactly Simulator.samples sessions and returns two lists of
\* that many entries.
C7_GatherRunsSamplesSessions ==
    pc = "done" => /\ iter = samples
                   /\ Len(maxima) = samples
                   /\ Len(durations) = samples

\* C8: at the start of a session the player's stake is initStake, its
\* roundsToGo is initDuration, and its initialBet and nextBet are 10.
C8_SessionStartFields ==
    (pc = "session" /\ call = "session") =>
        /\ stake = initStake
        /\ roundsToGo = initDuration
        /\ initialBet = 10
        /\ nextBet = 10

\* C9: a newly constructed Cancellation player holds the sequence
\* [1,2,3,4,5,6], the target outcome Black and a first bet of 7, and placeBets
\* does not fail for want of an attribute.
C9_NewCancellationPlayer ==
    /\ call = "none" =>
        /\ "sequence" \in attrs /\ sequence = <<1, 2, 3, 4, 5, 6>>
        /\ "specificBet" \in attrs /\ specificBet.name = "Black"
        /\ initialBet = 7
    /\ call = "placeBets" => error # "AttributeError"

\* C10: with a sequence of at least two elements, placeBets puts a bet of
\* first + last on the table (the player being able to play), win removes the
\* first and the last element, lose appends first + last.
C10_CancellationRules ==
    [][("sequence" \in attrs /\ Len(sequence) >= 2) =>
        LET first == sequence[1]
            last  == sequence[Len(sequence)]
        IN  /\ (call' = "placeBets" /\ isPlaying(stake, first + last, roundsToGo)) =>
                  /\ error' = "none"
                  /\ Len(bets') = Len(bets) + 1
                  /\ Last(bets').amount = first + last
            /\ call' = "win" => sequence' = SubSeq(sequence, 2, Len(sequence) - 1)
            /\ call' = "lose" => sequence' = Append(sequence, first + last)]_vars

\* C11: a reset() call on a Cancellation player that holds a sequence leaves the
\* sequence at [1,2,3,4,5,6], whatever it was before the call.
C11_ResetRestoresSequence ==
    [][(call' = "reset" /\ "sequence" \in attrs) =>
        sequence' = <<1, 2, 3, 4, 5, 6>>]_vars

\* C12: once a Cancellation player's sequence is empty, its session runs no
\* further round: no bin is drawn and no stake is recorded.
C12_EmptySequenceEndsSession ==
    [][(cls = "PlayerCancellation" /\ pc = "session" /\ "sequence" \in attrs
          /\ sequence = <<>>) =>
        (rngCalls' = rngCalls /\ stakeList' = stakeList)]_vars

\* C13: the reset() of a Martingale player sets lossCount to 0 and betMultiple
\* to 1 and leaves stake and roundsToGo as they were; and the first bet of every
\* session of gather, placed or rejected, is initialBet.
C13_MartingaleReset ==
    [][/\ (cls = "Martingale" /\ call' = "reset") =>
            /\ lossCount' = 0
            /\ betMultiple' = 1
            /\ stake' = stake
            /\ roundsToGo' = roundsToGo
       /\ (pc = "session" /\ stakeList = <<>> /\ call' = "cycle" /\ bets' # <<>>) =>
            bets'[1].amount = initialBet']_vars

\* C13 witness: the first session ended after one lost round with the doubled
\* bet of 20 rejected at limit 10; the second session's first bet is 10 again.
C13_Witness ==
    /\ iter = 2
    /\ limit = 10
    /\ initStake = 1000
    /\ samples >= 2
    /\ durations = <<1>>
    /\ call = "cycle"
    /\ Len(stakeList) = 1
    /\ bets = <<Bet(10, getOutcome("Black"))>>

\* each step of the construction does to the wheel what Wheel.addOutcome does
\* with the outcome added in that step
WheelStepIsAddOutcome ==
    [][built' = built + 1 =>
        buildBins(built') = addOutcome(buildBins(built), buildOutcomes[built'][1],
                                       buildOutcomes[built'][2])]_vars

\* C14: in the constructed wheel the bin of every number n of 1..36 holds
\* exactly one of Red/Black (Red iff n is a red number), exactly one of Low/High
\* (Low iff n <= 18) and exactly one of Even/Odd (Even iff n is even); the bin
\* of 00 (index 37) holds none of the six.
C14_OutsideOutcomes ==
    built = Len(buildOutcomes) =>
        LET wheel == buildBins(built)
            redNumbers == {1, 3, 5, 7, 9, 12, 14, 16, 18,
                           19, 21, 23, 25, 27, 30, 32, 34, 36}
            names(n) == {o.name : o \in wheel.bins[n]}
            count(n, S) == Cardinality({o \in wheel.bins[n] : o.name \in S})
        IN  /\ \A n \in 1..36 :
                 /\ count(n, {"Red", "Black"}) = 1
                 /\ "Red" \in names(n) <=> n \in redNumbers
                 /\ count(n, {"Low", "High"}) = 1
                 /\ "Low" \in names(n) <=> n <= 18
                 /\ count(n, {"Even", "Odd"}) = 1
                 /\ "Even" \in names(n) <=> n % 2 = 0
            /\ names(37) \cap {"Red", "Black", "Low", "High", "Even", "Odd"} = {}

\* C14 witness: the wheel is complete; bin 19 is Red, High, Odd and bin 37
\* holds the straight bet on 00.
C14_Witness ==
    /\ built = Len(buildOutcomes)
    /\ call = "addOutcome"
    /\ {"Red", "High", "Odd"} \subseteq {o.name : o \in buildBins(built).bins[19]}
    /\ "00" \in {o.name : o \in buildBins(built).bins[37]}

\* C16: in the constructed wheel each of the 38 bins holds between 12 and 14
\* distinct Outcomes.
C16_BinSizes ==
    built = Len(buildOutcomes) =>
        \A n \in 0..37 : Cardinality(buildBins(built).bins[n]) \in 12..14

\* C17: a session with a positive round budget runs at most as many cycles as
\* the budget (roundsToGo never passes 0, a session in progress can always take
\* its next step), and when it is over, the stake is below nextBet, roundsToGo
\* is 0, or the bet was rejected as over the limit.
C17_SessionEnds ==
    (iter >= 1 /\ samples >= 1) =>
        /\ pc \in {"session", "returned"} =>
              (Len(stakeList) <= samples /\ roundsToGo >= 0)
        /\ pc = "session" =>
              ENABLED (Cycle \/ CycleRejected \/ CycleRaises \/ SessionReturn)
        /\ (pc = "returned" \/ (pc = "raised" /\ call = "cycle")) =>
              \/ stake < nextBet
              \/ roundsToGo = 0
              \/ error = "InvalidBet"

\* C18: a cycle whose bet is rejected as over the limit draws no bin and leaves
\* stake, roundsToGo, lossCount, betMultiple and the settlement log as they
\* were; and a cycle that draws a bin settles only the bet placed in that very
\* cycle, which is within the limit: a rejected bet is never settled later.
C18_RejectedBetNotSettled ==
    [][/\ (pc = "session" /\ error' = "InvalidBet") =>
            /\ rngCalls' = rngCalls
            /\ winning_bin' = winning_bin
            /\ stake' = stake
            /\ roundsToGo' = roundsToGo
            /\ lossCount' = lossCount
            /\ betMultiple' = betMultiple
            /\ settled' = settled
       /\ rngCalls' = rngCalls + 1 =>
            /\ Len(bets') <= 1
            /\ \A i \in 1..Len(bets') : bets'[i] = newBet'
            /\ SumAmounts(bets') <= limit
            /\ Len(settled') = Len(settled) + Len(bets')]_vars

\* C18 witness: after one lost round the doubled bet of 20 was rejected at
\* limit 10: one bin drawn so far, one loss settled, the rejected bet unsettled.
C18_Witness ==
    /\ pc = "returned"
    /\ error = "InvalidBet"
    /\ limit = 10
    /\ bets = <<Bet(20, getOutcome("Black"))>>
    /\ rngCalls = 1
    /\ settled = <<"lose">>
    /\ stake = initStake - 10
    /\ roundsToGo = samples - 1
    /\ lossCount = 1
    /\ betMultiple = 2

\* C19: the player's stake is never negative in a session: a bet is put on the
\* table only when the stake is at least its amount, and settling a lost bet
\* takes exactly its amount off the stake.
C19_StakeNeverNegative ==
    /\ [](stake >= 0)
    /\ [][rngCalls' = rngCalls + 1 =>
            /\ \A i \in 1..Len(bets') : stake >= bets'[i].amount
            /\ (bets' # <<>> /\ ~Matches(bets'[1], winning_bin')) =>
                  stake' = stake - bets'[1].amount]_vars

\* C19 witness: a session begun with 20 lost its first bet of 10 and then its
\* stake of 10 did not cover the doubled bet: a round without bet, stake kept.
C19_Witness ==
    /\ initStake = 20
    /\ settled = <<"lose">>
    /\ stakeList = <<10, 10>>
    /\ bets = <<>>
    /\ stake = 10

\* C20: after any sequence of win, lose and reset calls on a Martingale player,
\* lossCount >= 0, betMultiple >= 1 and betMultiple = 2^lossCount.
C20_MultipleIsPowerOfLosses ==
    cls = "Martingale" =>
        /\ lossCount >= 0
        /\ betMultiple >= 1
        /\ betMultiple = Pow2(lossCount)

\* C20 witness: loss, reset, loss, loss: two losses counted since the reset,
\* betMultiple 4.
C20_Witness ==
    /\ call = "lose"
    /\ settled = <<"lose", "lose", "lose">>
    /\ lossCount = 2
    /\ betMultiple = 4

\* C21: when the table limit is at least the default bet 10, the starting
\* stake at least 10 and the round budget positive, every session of gather
\* records at least one round: every duration is >= 1, session never returns
\* an empty list, and gather never fails taking the maximum of one, so it
\* records a maximum for every duration.
C21_EverySessionHasARound ==
    (cls = "Martingale" /\ limit >= 10 /\ initStake >= 10 /\ samples >= 1) =>
        /\ \A i \in 1..Len(durations) : durations[i] >= 1
        /\ pc = "returned" => sessionStakes # <<>>
        /\ pc # "raised" /\ error # "ValueError"
        /\ pc \in {"gather", "done"} => Len(maxima) = Len(durations)

\* C21 witness: limit 10, stake 1000: the first session lost its bet of 10, had
\* the bet of 20 rejected, and gather recorded duration 1 and maximum 990.
C21_Witness ==
    /\ limit = 10
    /\ initStake = 1000
    /\ samples >= 2
    /\ call = "record"
    /\ pc = "gather"
    /\ durations = <<1>>
    /\ maxima = <<990>>
    /\ bets = <<Bet(20, getOutcome("Black"))>>

====
